---- MODULE Spec2Model ----
(***************************************************************************)
(* Model of the Pastel Pro To-Do API (src/main.py): the task handlers      *)
(* create_task, list_tasks, update_task, delete_task, the diagnostic       *)
(* endpoint test_database, and the serializer serialize_task, over a       *)
(* document store holding the "task" collection.                           *)
(***************************************************************************)
EXTENDS Integers, Sequences, FiniteSets, TLC

(***************************************************************************)
(* Bounds                                                                  *)
(***************************************************************************)
\* number of ObjectIds the store hands out (inserts ever made)
MaxTasks == 2
\* number of clock readings (each insert / update reads the clock once)
MaxTime == 3
\* largest number of collections the database holds
MaxCollections == 11
\* longest message of an exception the driver raises
MaxMessage == 51
\* number of concurrent request handlers
MaxProcs == 2

(***************************************************************************)
(* Values.  Python values of different types are kept apart by the field   *)
(* names of the records that carry them.                                   *)
(***************************************************************************)
None == [none |-> TRUE]
Str(s) == [str |-> s]
\* a datetime value read from the clock at tick n
DateTime(n) == [dt |-> n]
IsDateTime(v) == DOMAIN v = {"dt"}

\* datetime.isoformat(): the ISO text of a datetime
isoformat(v) == [iso |-> v.dt]

\* ObjectIds are numbered 1, 2, ...; str(ObjectId) is its 24-digit hex text
ObjectIds == 1..MaxTasks
StrOfObjectId(n) == [hex |-> n]
MalformedId == [raw |-> "not-an-object-id"]
\* the task_id path parameters a client sends
TaskIdInputs == {StrOfObjectId(n) : n \in ObjectIds} \cup {MalformedId}

\* a parser that takes any text for the id of the first task
ObjectIdLenient(s) ==
    IF DOMAIN s = {"hex"} THEN [ok |-> TRUE, oid |-> s.hex]
    ELSE [ok |-> TRUE, oid |-> 1]

\* bson.ObjectId(task_id): parses the hex text, raises InvalidId otherwise
ObjectId(s) ==
    IF DOMAIN s = {"hex"} THEN [ok |-> TRUE, oid |-> s.hex]
    ELSE [ok |-> FALSE, exc |-> "InvalidId"]

\* titles are sequences of characters
Titles == { <<"A", "b">>, <<"c">> }
\* the q query parameters a client sends (None: parameter absent)
Queries == { <<>>, <<"a">>, <<".">>, <<"a", "B">> }
QInputs == {None} \cup {Str(q) : q \in Queries}
\* the completed query parameters a client sends (None: parameter absent)
CompletedInputs == {None, [bool |-> TRUE], [bool |-> FALSE]}

\* the values a PATCH body may carry for each TaskUpdate field
FieldValues(f) ==
    CASE f = "title" -> Titles
      [] f = "description" -> {Str("d")}
      [] f = "completed" -> BOOLEAN
      [] f = "priority" -> {Str("high")}
      [] f = "due_date" -> {None, Str("2024-01-01")}

\* a dict with the keys S: p extended by key f with value v
Extend(p, f, v) == [g \in (DOMAIN p) \cup {f} |-> IF g = f THEN v ELSE p[g]]

RECURSIVE DictsOn(_)
\* every assignment of a value to each TaskUpdate field of S
DictsOn(S) ==
    IF S = {} THEN { <<>> }
    ELSE LET f == CHOOSE g \in S : TRUE
         IN  { Extend(p, f, v) : p \in DictsOn(S \ {f}), v \in FieldValues(f) }

\* the sets of fields the PATCH bodies supply: none, one or two of them
SuppliedSets ==
    { {}, {"title"}, {"due_date"}, {"description", "completed"}, {"priority"} }

\* payload.model_dump(exclude_unset=True): the supplied fields and their values
Payloads == UNION { DictsOn(S) : S \in SuppliedSets }

(***************************************************************************)
(* State                                                                   *)
(***************************************************************************)
VARIABLES
    db,          \* the store handle imported from database, or None
    tasks,       \* the "task" collection: ObjectId -> document
    nextId,      \* the next ObjectId the store assigns
    now,         \* the clock
    resp,        \* the last HTTP response sent
    inflight     \* per handler: an update_task between its two store calls

vars == <<db, tasks, nextId, now, resp, inflight>>

Procs == 1..MaxProcs
Idle == [pc |-> "idle"]

\* HTTP responses
Response(op, id, status, body) ==
    [op |-> op, id |-> id, status |-> status, body |-> body]

\* exceptions
HTTPException(status, detail) ==
    [exc |-> "HTTPException", status_code |-> status, detail |-> detail]
Exception(kind, msg) == [exc |-> kind, msg |-> msg]
IsException(r) == "exc" \in DOMAIN r

\* str(e)
StrOfException(e) ==
    IF e.exc = "HTTPException"
    THEN <<e.status_code, e.detail>>     \* "404: Task not found"
    ELSE <<e.msg>>

\* except Exception as e: raise HTTPException(status_code=500, detail=str(e))
ExceptException(e) == HTTPException(500, StrOfException(e))

\* what the framework sends for a handler that returned r or raised r
Reply(op, id, r) ==
    IF IsException(r)
    THEN Response(op, id, r.status_code, [detail |-> r.detail])
    ELSE Response(op, id, 200, r)

\* Python truthiness of an optional value
Truthy(v) == v # None /\ v # Str("")

\* value.isoformat() if value else None
IsoOrNone(v) ==
    IF ~Truthy(v) THEN None
    ELSE IF IsDateTime(v) THEN isoformat(v)
    ELSE Exception("AttributeError", "no attribute 'isoformat'")

\* serialize_task(doc): the wire record, or the exception it raises
serialize_task(doc) ==
    IF doc = None THEN Exception("AttributeError", "no attribute 'get'")
    ELSE LET due == IsoOrNone(doc.due_date)
             created == IsoOrNone(doc.created_at)
             updated == IsoOrNone(doc.updated_at)
         IN  IF IsException(due) THEN due
             ELSE IF IsException(created) THEN created
             ELSE IF IsException(updated) THEN updated
             ELSE [id |-> StrOfObjectId(doc._id),
                   title |-> doc.title,
                   description |-> doc.description,
                   completed |-> doc.completed,
                   priority |-> doc.priority,
                   due_date |-> due,
                   created_at |-> created,
                   updated_at |-> updated]

(***************************************************************************)
(* The document store                                                      *)
(***************************************************************************)
DocFields == {"_id", "title", "description", "completed", "priority",
              "due_date", "created_at", "updated_at"}

\* an update that also stamps created_at
update_one_touching_created(c, oid, setDoc) ==
    IF oid \in DOMAIN c
    THEN [matched_count |-> 1,
          coll |-> [c EXCEPT ![oid] =
                      [f \in DocFields |->
                         IF f \in DOMAIN setDoc THEN setDoc[f]
                         ELSE IF f = "created_at" THEN setDoc.updated_at
                         ELSE c[oid][f]]]]
    ELSE [matched_count |-> 0, coll |-> c]

\* update_one(filter _id = oid, {"$set": setDoc}) on the collection c
update_one(c, oid, setDoc) ==
    IF oid \in DOMAIN c
    THEN [matched_count |-> 1,
          coll |-> [c EXCEPT ![oid] =
                      [f \in DocFields |->
                         IF f \in DOMAIN setDoc THEN setDoc[f] ELSE c[oid][f]]]]
    ELSE [matched_count |-> 0, coll |-> c]

\* find_one(filter _id = oid)
find_one(c, oid) == IF oid \in DOMAIN c THEN c[oid] ELSE None

\* a delete whose filter matches every document once the id is stored
delete_one_unfiltered(c, oid) ==
    IF oid \in DOMAIN c
    THEN [deleted_count |-> 1, coll |-> <<>>]
    ELSE [deleted_count |-> 0, coll |-> c]

\* delete_one(filter _id = oid)
delete_one(c, oid) ==
    IF oid \in DOMAIN c
    THEN [deleted_count |-> 1, coll |-> [i \in (DOMAIN c) \ {oid} |-> c[i]]]
    ELSE [deleted_count |-> 0, coll |-> c]

\* a driver error raised by a store call
StoreError == Exception("PyMongoError", "store failure")

\* a driver error whose message is m characters long
StoreErrorOfLength(m) == Exception("PyMongoError", [k \in 1..m |-> k])

\* the Database handle; db.name is the database's name
Database == [name |-> Str("appdb")]

\* os.environ as the process finds it: each variable a text or absent
Environments ==
    [ DATABASE_URL : {None, Str("mongodb://host")},
      DATABASE_NAME : {None, Str("appdb")} ]

Init ==
    /\ db \in {None, Database}
    /\ tasks = <<>>
    /\ nextId = 1
    /\ now = 0
    /\ resp = Response("none", None, 0, None)
    /\ inflight = [p \in Procs |-> Idle]

(***************************************************************************)
(* create_task                                                             *)
(***************************************************************************)
\* create_document("task", task): inserts the task under a fresh ObjectId
\* with both timestamps set to the clock, returns the id as text
create_document(c, dbh, task, oid, t) ==
    IF dbh = None
    THEN [coll |-> c, r |-> Exception("Exception", "Database not available")]
    ELSE [coll |-> [i \in (DOMAIN c) \cup {oid} |->
                      IF i = oid
                      THEN [_id |-> oid,
                            title |-> task.title,
                            description |-> task.description,
                            completed |-> task.completed,
                            priority |-> task.priority,
                            due_date |-> task.due_date,
                            created_at |-> DateTime(t),
                            updated_at |-> DateTime(t)]
                      ELSE c[i]],
          r |-> StrOfObjectId(oid)]

\* the Task bodies a client posts: title required, the rest defaulted
TaskInputs ==
    [title : Titles, description : {None}, completed : BOOLEAN,
     priority : {None}, due_date : {None}]

\* the handler: the collection it leaves and what it returns or raises
create_task(c, dbh, task, oid, t, fail) ==
    LET ins == IF fail THEN [coll |-> c, r |-> StoreError]
               ELSE create_document(c, dbh, task, oid, t)
    IN  IF IsException(ins.r)
        THEN [coll |-> ins.coll, r |-> ExceptException(ins.r)]
        ELSE [coll |-> ins.coll, r |-> [id |-> ins.r]]

CreateTask(task, fail) ==
    /\ nextId <= MaxTasks
    /\ now < MaxTime
    /\ LET out == create_task(tasks, db, task, nextId, now, fail)
       IN  /\ tasks' = out.coll
           /\ resp' = Reply("create", None, out.r)
           /\ nextId' = IF IsException(out.r) THEN nextId ELSE nextId + 1
           /\ now' = IF IsException(out.r) THEN now ELSE now + 1
    /\ UNCHANGED <<db, inflight>>

(***************************************************************************)
(* list_tasks                                                              *)
(***************************************************************************)
\* case folding of one character
Lower(ch) == CASE ch = "A" -> "a" [] ch = "B" -> "b" [] OTHER -> ch

\* one pattern character against one text character, "$options": "i"
RegexCharMatches(pc, ch) == pc = "." \/ Lower(pc) = Lower(ch)

\* {"$regex": pattern, "$options": "i"}: the pattern matches somewhere in text
RegexSearch(pattern, text) ==
    \E off \in 0..(Len(text) - Len(pattern)) :
        \A j \in 1..Len(pattern) : RegexCharMatches(pattern[j], text[off + j])

\* Python truthiness of the q parameter
QTruthy(q) == q # None /\ Len(q.str) > 0

\* the filter_dict list_tasks builds
FilterDict(q, completed) ==
    [title |-> IF QTruthy(q) THEN [regex |-> q.str, options |-> "i"] ELSE None,
     completed |-> completed]

\* whether a document satisfies the filter
MatchesFilter(doc, filter) ==
    /\ filter.title # None => RegexSearch(filter.title.regex, doc.title)
    /\ filter.completed # None => doc.completed = filter.completed.bool

RECURSIVE SortedSeq(_)
\* the ids of S in increasing order
SortedSeq(S) ==
    IF S = {} THEN <<>>
    ELSE LET m == CHOOSE x \in S : \A y \in S : x <= y
         IN  <<m>> \o SortedSeq(S \ {m})

\* get_documents("task", filter_dict): the matching documents
get_documents(c, dbh, filter) ==
    IF dbh = None THEN Exception("Exception", "Database not available")
    ELSE LET ids == SortedSeq({i \in DOMAIN c : MatchesFilter(c[i], filter)})
         IN  [docs |-> [k \in 1..Len(ids) |-> c[ids[k]]]]

\* the handler: the list it returns (a record holding it) or what it raises
list_tasks(c, dbh, q, completed, fail) ==
    LET got == IF fail THEN StoreError
               ELSE get_documents(c, dbh, FilterDict(q, completed))
    IN  IF IsException(got) THEN ExceptException(got)
        ELSE LET out == [k \in 1..Len(got.docs) |-> serialize_task(got.docs[k])]
             IN  IF \E k \in 1..Len(out) : IsException(out[k])
                 THEN ExceptException(
                        out[CHOOSE k \in 1..Len(out) :
                              /\ IsException(out[k])
                              /\ \A l \in 1..(k - 1) : ~IsException(out[l])])
                 ELSE [list |-> out]

ListTasks(q, completed, fail) ==
    /\ resp' = Reply("list", None, list_tasks(tasks, db, q, completed, fail))
    /\ UNCHANGED <<db, tasks, nextId, now, inflight>>

(***************************************************************************)
(* update_task                                                             *)
(***************************************************************************)
\* a $set document whose updated_at is the epoch instead of the clock
SetDocStale(update_doc, t) == Extend(update_doc, "updated_at", DateTime(0))

\* {**update_doc, "updated_at": datetime.now(timezone.utc)}
SetDoc(update_doc, t) == Extend(update_doc, "updated_at", DateTime(t))

\* lines 75-80: the write.  Leaves the collection and either the ObjectId
\* to read back or the exception raised inside the try block
update_write(c, task_id, payload, t, fail) ==
    LET oid == ObjectId(task_id)
    IN  IF ~oid.ok THEN [coll |-> c, r |-> Exception(oid.exc, "invalid ObjectId")]
        ELSE IF fail THEN [coll |-> c, r |-> StoreError]
        ELSE LET res == update_one(c, oid.oid, SetDoc(payload, t))
             IN  IF res.matched_count = 0
                 THEN [coll |-> res.coll,
                       r |-> HTTPException(404, "Task not found")]
                 ELSE [coll |-> res.coll, r |-> [oid |-> oid.oid]]

\* lines 81-82: the read-back and serialization
update_read(c, oid, fail) ==
    IF fail THEN StoreError ELSE serialize_task(find_one(c, oid))

\* the whole handler run without interruption
update_task(c, dbh, task_id, payload, t, failWrite, failRead) ==
    IF dbh = None
    THEN [coll |-> c, r |-> HTTPException(500, "Database not available")]
    ELSE LET w == update_write(c, task_id, payload, t, failWrite)
         IN  IF IsException(w.r)
             THEN [coll |-> w.coll, r |-> ExceptException(w.r)]
             ELSE LET out == update_read(w.coll, w.r.oid, failRead)
                  IN  [coll |-> w.coll,
                       r |-> IF IsException(out) THEN ExceptException(out)
                             ELSE out]

UpdateTask(task_id, payload, failWrite, failRead) ==
    /\ now < MaxTime
    /\ ~(failWrite /\ failRead)
    /\ LET out == update_task(tasks, db, task_id, payload, now,
                              failWrite, failRead)
       IN  /\ tasks' = out.coll
           /\ resp' = Reply("update", task_id, out.r)
           /\ now' = IF out.coll = tasks THEN now ELSE now + 1
    /\ UNCHANGED <<db, nextId, inflight>>

(***************************************************************************)
(* delete_task                                                             *)
(***************************************************************************)
delete_task(c, dbh, task_id, fail) ==
    IF dbh = None
    THEN [coll |-> c, r |-> HTTPException(500, "Database not available")]
    ELSE LET oid == ObjectId(task_id)
         IN  IF ~oid.ok
             THEN [coll |-> c,
                   r |-> ExceptException(Exception(oid.exc, "invalid ObjectId"))]
             ELSE IF fail THEN [coll |-> c, r |-> ExceptException(StoreError)]
             ELSE LET res == delete_one(c, oid.oid)
                  IN  IF res.deleted_count = 0
                      THEN [coll |-> res.coll,
                            r |-> ExceptException(
                                    HTTPException(404, "Task not found"))]
                      ELSE [coll |-> res.coll, r |-> [success |-> TRUE]]

DeleteTask(task_id, fail) ==
    /\ LET out == delete_task(tasks, db, task_id, fail)
       IN  /\ tasks' = out.coll
           /\ resp' = Reply("delete", task_id, out.r)
    /\ UNCHANGED <<db, nextId, now, inflight>>

(***************************************************************************)
(* test_database                                                           *)
(***************************************************************************)
\* collections[:10] keeps this many names
MaxShown == 10

\* the whole of s, unsliced
SliceWhole(s, n) == s

\* s[:n]
Slice(s, n) == SubSeq(s, 1, IF Len(s) < n THEN Len(s) ELSE n)

\* "Set" if os.getenv(name) else "Not Set"
SetMarker(v) == IF Truthy(v) THEN Str("Set") ELSE Str("Not Set")

\* str(e)[:50] keeps this many characters
MaxDetail == 50

\* the handler; listing is what db.list_collection_names() returns or raises
test_database(dbh, environ, listing) ==
    LET response == [backend |-> Str("Running"),
                     database |-> Str("Not Available"),
                     database_url |-> None,
                     database_name |-> None,
                     connection_status |-> Str("Not Connected"),
                     collections |-> <<>>]
        connected == [response EXCEPT
                        !.database = Str("Available"),
                        !.database_url = Str("Configured"),
                        !.database_name = dbh.name,
                        !.connection_status = Str("Connected")]
        probed == IF dbh = None
                  THEN [response EXCEPT
                          !.database = Str("Available but not initialized")]
                  ELSE IF IsException(listing)
                  THEN [connected EXCEPT
                          !.database = [str |-> "Connected but Error",
                                        detail |-> Slice(listing.msg, MaxDetail)]]
                  ELSE [connected EXCEPT
                          !.collections = Slice(listing.names, MaxShown),
                          !.database = Str("Connected & Working")]
    IN  [probed EXCEPT
           !.database_url = SetMarker(environ.DATABASE_URL),
           !.database_name = SetMarker(environ.DATABASE_NAME)]

\* the collection names a database holding n collections lists
CollectionNames(n) == [names |-> [k \in 1..n |-> k]]

\* what db.list_collection_names() can return or raise
Listings ==
    {CollectionNames(n) : n \in 0..MaxCollections}
      \cup {StoreErrorOfLength(m) : m \in 0..MaxMessage}

TestDatabase(environ, listing) ==
    /\ resp' = Reply("test", None, test_database(db, environ, listing))
    /\ UNCHANGED <<db, tasks, nextId, now, inflight>>

Next ==
    \/ \E task \in TaskInputs, fail \in BOOLEAN : CreateTask(task, fail)
    \/ \E q \in QInputs, c \in CompletedInputs, fail \in BOOLEAN :
          ListTasks(q, c, fail)
    \/ \E id \in TaskIdInputs, p \in Payloads, fw \in BOOLEAN, fr \in BOOLEAN :
          UpdateTask(id, p, fw, fr)
    \/ \E id \in TaskIdInputs, fail \in BOOLEAN : DeleteTask(id, fail)

Spec == Init /\ [][Next]_vars

\* the diagnostic endpoint on its own: it reads db and the environment only
NextDiag == \E e \in Environments, l \in Listings : TestDatabase(e, l)

SpecDiag == Init /\ [][NextDiag]_vars

(***************************************************************************)
(* Concurrent handlers: update_task's two store calls are separate steps,  *)
(* and other handlers' store calls may come between them.                  *)
(***************************************************************************)
\* lines 72-80 of update_task run by handler p
UpdateWrite(p, task_id, payload, fail) ==
    /\ inflight[p] = Idle
    /\ now < MaxTime
    /\ IF db = None
       THEN /\ resp' = Reply("update", task_id,
                             HTTPException(500, "Database not available"))
            /\ UNCHANGED <<tasks, now, inflight>>
       ELSE LET w == update_write(tasks, task_id, payload, now, fail)
            IN  /\ tasks' = w.coll
                /\ now' = IF w.coll = tasks THEN now ELSE now + 1
                /\ IF IsException(w.r)
                   THEN /\ resp' = Reply("update", task_id, ExceptException(w.r))
                        /\ UNCHANGED inflight
                   ELSE /\ inflight' = [inflight EXCEPT ![p] =
                                          [pc |-> "wrote", task_id |-> task_id,
                                           oid |-> w.r.oid, payload |-> payload]]
                        /\ UNCHANGED resp
    /\ UNCHANGED <<db, nextId>>

\* lines 81-84 of update_task run by handler p
UpdateRead(p, fail) ==
    /\ inflight[p] # Idle
    /\ LET out == update_read(tasks, inflight[p].oid, fail)
       IN  resp' = Reply("update", inflight[p].task_id,
                         IF IsException(out) THEN ExceptException(out) ELSE out)
    /\ inflight' = [inflight EXCEPT ![p] = Idle]
    /\ UNCHANGED <<db, tasks, nextId, now>>

NextConc ==
    \/ \E task \in TaskInputs, fail \in BOOLEAN : CreateTask(task, fail)
    \/ \E p \in Procs, id \in TaskIdInputs, pl \in Payloads, fail \in BOOLEAN :
          UpdateWrite(p, id, pl, fail)
    \/ \E p \in Procs, fail \in BOOLEAN : UpdateRead(p, fail)
    \/ \E id \in TaskIdInputs, fail \in BOOLEAN : DeleteTask(id, fail)

SpecConc == Init /\ [][NextConc]_vars

(***************************************************************************)
(* Properties                                                              *)
(***************************************************************************)
WellFormed(task_id) == ObjectId(task_id).ok
OidOf(task_id) == ObjectId(task_id).oid

\* C1: update_task with a well-formed id that matches no stored task, on an
\* available store, answers 404 Not Found, for every store content and payload
C1_UpdateMissingIsNotFound ==
    [][(/\ resp'.op = "update"
        /\ db # None
        /\ WellFormed(resp'.id)
        /\ OidOf(resp'.id) \notin DOMAIN tasks)
       => \A p \in Payloads :
             UpdateTask(resp'.id, p, FALSE, FALSE) => resp'.status = 404]_vars

\* C2: deleting a stored task twice in a row answers {success: true} the
\* first time and 404 Not Found the second time
C2_DeleteTwice ==
    [][(resp'.op = "delete" /\ db # None /\ DeleteTask(resp'.id, FALSE))
       => /\ (WellFormed(resp'.id) /\ OidOf(resp'.id) \in DOMAIN tasks)
             => (resp'.status = 200 /\ resp'.body = [success |-> TRUE])
          /\ (resp.op = "delete" /\ resp.status = 200 /\ resp.id = resp'.id)
             => resp'.status = 404]_vars

\* C3: a successful update_task sets exactly the supplied fields to the
\* supplied values and updated_at to the current time; the task's other
\* fields (id and created_at included) and all other tasks stay as they were
C3_UpdateFrame ==
    [][(resp'.op = "update" /\ resp'.status = 200)
       => \A p \in Payloads, fw \in BOOLEAN, fr \in BOOLEAN :
             UpdateTask(resp'.id, p, fw, fr)
             => LET oid == OidOf(resp'.id)
                IN  /\ oid \in DOMAIN tasks
                    /\ DOMAIN tasks' = DOMAIN tasks
                    /\ \A f \in DOMAIN p : tasks'[oid][f] = p[f]
                    /\ tasks'[oid].updated_at = DateTime(now)
                    /\ \A f \in DocFields \ ((DOMAIN p) \cup {"updated_at"}) :
                          tasks'[oid][f] = tasks[oid][f]
                    /\ \A o \in (DOMAIN tasks) \ {oid} : tasks'[o] = tasks[o]]_vars

\* a successful update of one of two stored tasks, after which the updated
\* task differs from its created form only in part
C3_Witness ==
    /\ resp.op = "update"
    /\ resp.status = 200
    /\ Cardinality(DOMAIN tasks) = 2
    /\ \E i \in DOMAIN tasks :
          /\ resp.id = StrOfObjectId(i)
          /\ tasks[i].updated_at # tasks[i].created_at
          /\ tasks[i].description # None
          /\ tasks[i].priority = None

\* text contains q as a substring, letter case ignored
ContainsIgnoreCase(text, q) ==
    \E off \in 0..(Len(text) - Len(q)) :
        \A j \in 1..Len(q) : Lower(q[j]) = Lower(text[off + j])

\* the predicates of a list request, as the specification words them
Satisfies(doc, q, completed) ==
    /\ q # None => ContainsIgnoreCase(doc.title, q.str)
    /\ completed # None => doc.completed = completed.bool

\* C4: list_tasks returns exactly the stored tasks whose title contains q as a
\* case-insensitive substring (when q is supplied) and whose completed flag
\* equals completed (when it is supplied); with neither, all tasks
C4_ListExact ==
    [][(resp'.op = "list" /\ db # None)
       => \A q \in QInputs, c \in CompletedInputs :
             ListTasks(q, c, FALSE)
             => /\ resp'.status = 200
                /\ { resp'.body.list[k].id : k \in 1..Len(resp'.body.list) }
                     = { StrOfObjectId(i) :
                           i \in { j \in DOMAIN tasks : Satisfies(tasks[j], q, c) } }
                /\ Len(resp'.body.list)
                     = Cardinality({ j \in DOMAIN tasks : Satisfies(tasks[j], q, c) })
                /\ \A k \in 1..Len(resp'.body.list) :
                      resp'.body.list[k]
                        = serialize_task(tasks[OidOf(resp'.body.list[k].id)])]_vars

\* C5: after create_task succeeds with title T and returns id I, the next
\* list_tasks whose filter matches T contains a record with id I and title T,
\* and I is the id of no task stored before the create
C5_CreateThenList ==
    [][/\ (resp'.op = "create" /\ resp'.status = 200)
          => /\ \A i \in DOMAIN tasks : resp'.body.id # StrOfObjectId(i)
             /\ OidOf(resp'.body.id) \in DOMAIN tasks'
       /\ (resp.op = "create" /\ resp.status = 200 /\ resp'.op = "list"
             /\ db # None)
          => \A q \in QInputs, c \in CompletedInputs :
                (/\ ListTasks(q, c, FALSE)
                 /\ MatchesFilter(tasks[OidOf(resp.body.id)], FilterDict(q, c)))
                => /\ resp'.status = 200
                   /\ \E k \in 1..Len(resp'.body.list) :
                         /\ resp'.body.list[k].id = resp.body.id
                         /\ resp'.body.list[k].title
                              = tasks[OidOf(resp.body.id)].title]_vars

\* C6: a delete_task that succeeds removes exactly the task of the given id
\* and leaves the others as they were; one that fails leaves the store as it was
C6_DeleteFrame ==
    [][resp'.op = "delete"
       => \A fail \in BOOLEAN :
             DeleteTask(resp'.id, fail)
             => IF resp'.status = 200
                THEN /\ resp'.id # MalformedId
                     /\ resp'.id.hex \in DOMAIN tasks
                     /\ DOMAIN tasks' = (DOMAIN tasks) \ {resp'.id.hex}
                     /\ \A o \in DOMAIN tasks' : tasks'[o] = tasks[o]
                ELSE tasks' = tasks]_vars

\* one of two stored tasks has just been deleted
C6_Witness ==
    /\ resp.op = "delete"
    /\ resp.status = 200
    /\ Cardinality(DOMAIN tasks) = 1
    /\ resp.id.hex \notin DOMAIN tasks

\* the two markers the diagnostic response uses for a connection parameter
Markers == {Str("Set"), Str("Not Set")}

\* C7: test_database always answers with a response object, never an error;
\* it lists at most 10 collections, and database_url and database_name carry
\* a set / not-set marker only
C7_DiagnosticNeverFails ==
    resp.op = "test"
    => /\ resp.status = 200
       /\ Len(resp.body.collections) <= 10
       /\ resp.body.database_url \in Markers
       /\ resp.body.database_name \in Markers
       /\ resp.body.database_url \notin {e.DATABASE_URL : e \in Environments}
       /\ resp.body.database_name
            \notin {e.DATABASE_NAME : e \in Environments} \cup {Database.name}

\* the diagnostic answered for a working database holding more than 10
\* collections, with both connection parameters configured
C7_Witness ==
    /\ resp.op = "test"
    /\ db # None
    /\ resp.body.database = Str("Connected & Working")
    /\ Len(resp.body.collections) = 10
    /\ resp.body.database_url = Str("Set")
    /\ resp.body.database_name = Str("Set")

\* C8 as claimed: update_task with a malformed id, or with db None, or with a
\* store call raising, answers 500 and leaves every stored task as it was
C8_UpdateFailureLeavesStore ==
    [][resp'.op = "update"
       => \A p \in Payloads, fw \in BOOLEAN, fr \in BOOLEAN :
             (/\ UpdateTask(resp'.id, p, fw, fr)
              /\ (resp'.id = MalformedId \/ db = None \/ fw \/ fr))
             => (resp'.status = 500 /\ tasks' = tasks)]_vars

\* C8 as amended: update_task with a malformed id, or with db None, or with
\* the update_one call raising, answers 500 and leaves every stored task as
\* it was; when only the read-back raises it still answers 500.  Stated from
\* the answer: an update that did not answer 500 with the store untouched had
\* a well-formed id, a store handle and an update_one that did not raise, and
\* one that did not answer 500 had a read-back that did not raise either
C8_UpdateWriteFailureLeavesStore ==
    [][/\ (resp'.op = "update" /\ ~(resp'.status = 500 /\ tasks' = tasks))
          => /\ resp'.id # MalformedId
             /\ db # None
             /\ \A p \in Payloads : ~UpdateTask(resp'.id, p, TRUE, FALSE)
       /\ (resp'.op = "update" /\ resp'.status # 500)
          => \A p \in Payloads : ~UpdateTask(resp'.id, p, FALSE, TRUE)]_vars

\* an update with a malformed id was refused while a task is stored
C8_Witness ==
    /\ resp.op = "update"
    /\ resp.id = MalformedId
    /\ resp.status = 500
    /\ db # None
    /\ tasks # <<>>

\* C9: no two stored tasks share an id, no request changes the id of a stored
\* task, and a successful update leaves updated_at no earlier than the
\* task's previous updated_at and than its created_at
C9_IdsAndTimestamps ==
    [][/\ \A i \in DOMAIN tasks', j \in DOMAIN tasks' :
             i # j => tasks'[i]._id # tasks'[j]._id
       /\ \A i \in (DOMAIN tasks) \cap (DOMAIN tasks') :
             tasks'[i]._id = tasks[i]._id
       /\ (resp'.op = "update" /\ resp'.status = 200)
          => LET oid == OidOf(resp'.id)
             IN  /\ oid \in DOMAIN tasks
                 /\ tasks'[oid].updated_at.dt >= tasks[oid].updated_at.dt
                 /\ tasks'[oid].updated_at.dt >= tasks'[oid].created_at.dt]_vars

\* a stored task has been updated a second time
C9_Witness ==
    /\ resp.op = "update"
    /\ resp.status = 200
    /\ \E i \in DOMAIN tasks :
          /\ resp.id = StrOfObjectId(i)
          /\ tasks[i]._id = i
          /\ tasks[i].updated_at.dt > tasks[i].created_at.dt + 1

\* C10: under any interleaving, an update_task answers with an error only if
\* its write modified no stored task, and a successful answer carries for
\* every supplied field the value that request supplied
C10_UpdateAnswersOwnWrite ==
    [][/\ (resp'.op = "update" /\ resp'.status # 200 /\ inflight' = inflight)
          => tasks' = tasks
       /\ \A p \in Procs :
             (inflight[p] # Idle /\ UpdateRead(p, FALSE))
             => /\ resp'.status = 200
                /\ \A f \in DOMAIN inflight[p].payload :
                      resp'.body[f] = inflight[p].payload[f]]_vars
====
